---- MODULE Spec2Model ----
(***************************************************************************)
(* Model of spot_driver/launch/spot_driver.launch.py.                      *)
(*                                                                         *)
(* The launch file is a one-shot compiler from launch arguments to a       *)
(* launch description.  Python strings are TLA+ strings; characters are    *)
(* strings of length one (Head, Tail, SubSeq and \o act on strings).       *)
(* cli holds the launch arguments given on the command line: for every     *)
(* argument the empty set (not given) or the singleton of its value.       *)
(***************************************************************************)
EXTENDS Integers, Sequences, FiniteSets, TLC

VARIABLES pc, cli, config, depth_registered_mode, publish_point_clouds, ld

vars == <<pc, cli, config, depth_registered_mode, publish_point_clouds, ld>>

(* ---------------------------- bounds ----------------------------------- *)

\* only the first MaxUpper characters of a recognised literal vary in case
MaxUpper == 2
\* spot_name ranges over the strings over NameChars of at most this length
MaxNameLen == 1

(* ------------------------ Python str / os.path ------------------------- *)

UpperLetters == "ABCDEFGHIJKLMNOPQRSTUVWXYZ"
LowerLetters == "abcdefghijklmnopqrstuvwxyz"

CharAt(s, i) == SubSeq(s, i, i)

\* str.lower() on one character
LowerChar(c) ==
    IF \E i \in 1..26 : CharAt(UpperLetters, i) = c
    THEN CharAt(LowerLetters, CHOOSE i \in 1..26 : CharAt(UpperLetters, i) = c)
    ELSE c

UpperChar(c) ==
    IF \E i \in 1..26 : CharAt(LowerLetters, i) = c
    THEN CharAt(UpperLetters, CHOOSE i \in 1..26 : CharAt(LowerLetters, i) = c)
    ELSE c

RECURSIVE lower(_)
lower(s) == IF s = "" THEN "" ELSE LowerChar(Head(s)) \o lower(Tail(s))

startswith(s, c) == Len(s) > 0 /\ CharAt(s, 1) = c
endswith(s, c) == Len(s) > 0 /\ CharAt(s, Len(s)) = c

\* one iteration of posixpath.join: an absolute component discards the path,
\* a separator is inserted only when the path is non-empty and has none
JoinStep(path, b) ==
    IF startswith(b, "/") THEN b
    ELSE IF path = "" \/ endswith(path, "/") THEN path \o b
    ELSE path \o "/" \o b

RECURSIVE JoinFrom(_, _, _)
JoinFrom(path, parts, i) ==
    IF i > Len(parts) THEN path ELSE JoinFrom(JoinStep(path, parts[i]), parts, i + 1)

\* PathJoinSubstitution(parts).perform(context) = os.path.join(*parts)
PathJoinSubstitution(parts) == JoinFrom(parts[1], parts, 2)

(* ------------------------------ enum ----------------------------------- *)

DISABLE == <<0>>
FROM_SPOT == <<1>>
FROM_NODELETS == <<2>>

THIS_PACKAGE == "spot_driver"

(* ------------------------- camera sources ------------------------------ *)

BaseCameras == <<"frontleft", "frontright", "left", "right", "back">>

\* variant: the flag is compared case-insensitively
get_camera_sources_lower(has_arm) ==
    IF lower(has_arm) = "true" THEN Append(BaseCameras, "hand") ELSE BaseCameras

get_camera_sources(has_arm) ==
    IF has_arm = "true" \/ has_arm = "True"
    THEN Append(BaseCameras, "hand")
    ELSE BaseCameras

(* ------------------------ component builders --------------------------- *)

\* variant: rgb/camera_info wired to the depth camera's info topic
RegisterNode_DepthInfo(camera, spot_name) ==
    [ package    |-> "depth_image_proc",
      plugin     |-> "depth_image_proc::RegisterNode",
      name       |-> "register_node_" \o camera,
      namespace  |-> spot_name,
      remappings |-> <<
        <<"depth/image_rect", PathJoinSubstitution(<<"depth", camera, "image">>)>>,
        <<"depth/camera_info", PathJoinSubstitution(<<"depth", camera, "camera_info">>)>>,
        <<"rgb/camera_info", PathJoinSubstitution(<<"depth", camera, "camera_info">>)>>,
        <<"depth_registered/image_rect",
          PathJoinSubstitution(<<"depth_registered", camera, "image">>)>>,
        <<"depth_registered/camera_info",
          PathJoinSubstitution(<<"depth_registered", camera, "camera_info">>)>> >> ]

RegisterNode(camera, spot_name) ==
    [ package    |-> "depth_image_proc",
      plugin     |-> "depth_image_proc::RegisterNode",
      name       |-> "register_node_" \o camera,
      namespace  |-> spot_name,
      remappings |-> <<
        <<"depth/image_rect", PathJoinSubstitution(<<"depth", camera, "image">>)>>,
        <<"depth/camera_info", PathJoinSubstitution(<<"depth", camera, "camera_info">>)>>,
        <<"rgb/camera_info", PathJoinSubstitution(<<"camera", camera, "camera_info">>)>>,
        <<"depth_registered/image_rect",
          PathJoinSubstitution(<<"depth_registered", camera, "image">>)>>,
        <<"depth_registered/camera_info",
          PathJoinSubstitution(<<"depth_registered", camera, "camera_info">>)>> >> ]

create_depth_registration_nodelets(spot_name, has_arm) ==
    LET cameras == get_camera_sources(has_arm)
    IN  [i \in 1..Len(cameras) |-> RegisterNode(cameras[i], spot_name)]

\* variant: the registered depth input is read from .../image_rect
PointCloudXyzrgbNode_ImageRect(camera, spot_name) ==
    [ package    |-> "depth_image_proc",
      plugin     |-> "depth_image_proc::PointCloudXyzrgbNode",
      name       |-> "point_cloud_xyzrgb_node_" \o camera,
      namespace  |-> spot_name,
      remappings |-> <<
        <<"rgb/camera_info", PathJoinSubstitution(<<"camera", camera, "camera_info">>)>>,
        <<"rgb/image_rect_color", PathJoinSubstitution(<<"camera", camera, "image">>)>>,
        <<"depth_registered/image_rect",
          PathJoinSubstitution(<<"depth_registered", camera, "image_rect">>)>>,
        <<"points", PathJoinSubstitution(<<"depth_registered", camera, "points">>)>> >> ]

PointCloudXyzrgbNode(camera, spot_name) ==
    [ package    |-> "depth_image_proc",
      plugin     |-> "depth_image_proc::PointCloudXyzrgbNode",
      name       |-> "point_cloud_xyzrgb_node_" \o camera,
      namespace  |-> spot_name,
      remappings |-> <<
        <<"rgb/camera_info", PathJoinSubstitution(<<"camera", camera, "camera_info">>)>>,
        <<"rgb/image_rect_color", PathJoinSubstitution(<<"camera", camera, "image">>)>>,
        <<"depth_registered/image_rect",
          PathJoinSubstitution(<<"depth_registered", camera, "image">>)>>,
        <<"points", PathJoinSubstitution(<<"depth_registered", camera, "points">>)>> >> ]

\* variant: every descriptor is built for the first camera
create_point_cloud_nodelets_FirstCamera(spot_name, has_arm) ==
    LET cameras == get_camera_sources(has_arm)
    IN  [i \in 1..Len(cameras) |-> PointCloudXyzrgbNode(cameras[1], spot_name)]

create_point_cloud_nodelets(spot_name, has_arm) ==
    LET cameras == get_camera_sources(has_arm)
    IN  [i \in 1..Len(cameras) |-> PointCloudXyzrgbNode(cameras[i], spot_name)]

(* --------------------------- launch_setup ------------------------------ *)

\* variant: the string is matched without lower-casing
ResolveMode_CaseSensitive(raw) ==
    IF raw = "from_spot" THEN FROM_SPOT
    ELSE IF raw = "from_nodelets" THEN FROM_NODELETS
    ELSE DISABLE

\* the if/elif/else chain over the lower-cased string
ResolveMode(raw) ==
    LET depth_registered_mode_string == lower(raw)
    IN  IF depth_registered_mode_string = "from_spot" THEN FROM_SPOT
        ELSE IF depth_registered_mode_string = "from_nodelets" THEN FROM_NODELETS
        ELSE IF depth_registered_mode_string = "disable" THEN DISABLE
        ELSE DISABLE

\* variant: the request is not overridden when the mode is DISABLE
ResolvePointClouds_NoOverride(raw, mode) == lower(raw) = "true"

\* the request, forced to False when the mode is DISABLE
ResolvePointClouds(raw, mode) ==
    IF mode = DISABLE THEN FALSE ELSE lower(raw) = "true"

\* variant: the entry is always written, with the value (mode is FROM_SPOT)
SpotDriverParams_AlwaysSet(config_file, spot_name, mode) ==
    << [params_file |-> config_file], [spot_name |-> spot_name],
       [publish_depth_registered |-> (mode = FROM_SPOT)] >>

\* variant: the test names the wrong enum member
SpotDriverParams_WrongMember(config_file, spot_name, mode) ==
    LET spot_driver_params ==
            << [params_file |-> config_file], [spot_name |-> spot_name] >>
    IN  IF mode # FROM_NODELETS
        THEN Append(spot_driver_params, [publish_depth_registered |-> FALSE])
        ELSE spot_driver_params

\* the parameter list of the spot_ros2 node
SpotDriverParams(config_file, spot_name, mode) ==
    LET spot_driver_params ==
            << [params_file |-> config_file], [spot_name |-> spot_name] >>
    IN  IF mode # FROM_SPOT
        THEN Append(spot_driver_params, [publish_depth_registered |-> FALSE])
        ELSE spot_driver_params

\* variant: a given tf_prefix does not stop the derivation from spot_name
ResolveTfPrefix_IgnoreGiven(tf_prefix, spot_name) ==
    IF spot_name # "" THEN PathJoinSubstitution(<<spot_name, "">>) ELSE tf_prefix

\* the tf_prefix default derived from spot_name
ResolveTfPrefix(tf_prefix, spot_name) ==
    IF tf_prefix = "" /\ spot_name # ""
    THEN PathJoinSubstitution(<<spot_name, "">>)
    ELSE tf_prefix

\* the substitutions of the xacro command, performed
RobotDescription(has_arm, tf_prefix) ==
    << PathJoinSubstitution(<<"xacro">>), " ",
       PathJoinSubstitution(<<"spot_description", "urdf", "spot.urdf.xacro">>), " ",
       "arm:=", has_arm, " ", "tf_prefix:=", tf_prefix, " " >>

\* variant: the point-cloud descriptors come first
ComposableNodeDescriptions_Swapped(spot_name, has_arm, mode, point_clouds) ==
    (IF point_clouds THEN create_point_cloud_nodelets(spot_name, has_arm) ELSE << >>)
    \o
    (IF mode = FROM_NODELETS
     THEN create_depth_registration_nodelets(spot_name, has_arm) ELSE << >>)

\* registration descriptors, then point-cloud descriptors
ComposableNodeDescriptions(spot_name, has_arm, mode, point_clouds) ==
    (IF mode = FROM_NODELETS
     THEN create_depth_registration_nodelets(spot_name, has_arm) ELSE << >>)
    \o
    (IF point_clouds THEN create_point_cloud_nodelets(spot_name, has_arm) ELSE << >>)

(* --------------------- generate_launch_description --------------------- *)

DeclareLaunchArgument(name, default_value) ==
    [action |-> "DeclareLaunchArgument", name |-> name, default_value |-> default_value]

launch_args ==
    << DeclareLaunchArgument("config_file", ""),
       DeclareLaunchArgument("has_arm", "False"),
       DeclareLaunchArgument("tf_prefix", ""),
       DeclareLaunchArgument("launch_rviz", "False"),
       DeclareLaunchArgument("rviz_config_file", ""),
       DeclareLaunchArgument("depth_registered_mode", "from_nodelets"),
       DeclareLaunchArgument("publish_point_clouds", "false"),
       DeclareLaunchArgument("spot_name", "") >>

ArgNames == {launch_args[i].name : i \in 1..Len(launch_args)}

DefaultOf(name) ==
    launch_args[CHOOSE i \in 1..Len(launch_args) : launch_args[i].name = name].default_value

\* the value LaunchConfiguration(name).perform(context) yields
LaunchConfiguration(given, name) ==
    IF given[name] = {} THEN DefaultOf(name) ELSE CHOOSE v \in given[name] : TRUE

(* ----------------------------- inputs ---------------------------------- *)

\* s with any of its first k characters upper-cased
RECURSIVE UpperVariants(_, _)
UpperVariants(s, k) ==
    IF s = "" \/ k = 0 THEN {s}
    ELSE LET c == Head(s)
             rest == UpperVariants(Tail(s), k - 1)
         IN  {c \o r : r \in rest} \cup {UpperChar(c) \o r : r \in rest}

NameChars == {"a", "/"}

RECURSIVE NameStrings(_)
NameStrings(n) ==
    IF n = 0 THEN {""}
    ELSE LET S == NameStrings(n - 1) IN S \cup {s \o c : s \in S, c \in NameChars}

ModeInputs ==
    UpperVariants("from_spot", MaxUpper) \cup UpperVariants("from_nodelets", MaxUpper)
    \cup UpperVariants("disable", MaxUpper)
    \cup {"", "unexpected", "DISABLE", "FROM_SPOT", "From_Nodelets", "disabled", "from_spot "}

HasArmInputs == {"true", "True", "TRUE", "tRue", "false"}

PointCloudInputs == {"true", "True", "TRUE", "1"}

TfPrefixInputs == {"", "custom", "a/"}

Optional(S) == {{}} \cup {{v} : v \in S}

CliInputs ==
    [ config_file           : {{}},
      has_arm               : Optional(HasArmInputs),
      tf_prefix             : {{v} : v \in TfPrefixInputs},
      launch_rviz           : {{}},
      rviz_config_file      : {{}},
      depth_registered_mode : Optional(ModeInputs),
      publish_point_clouds  : Optional(PointCloudInputs),
      spot_name             : {{v} : v \in NameStrings(MaxNameLen)} ]

NoConfig == [n \in ArgNames |-> ""]

(* --------------------------- state machine ----------------------------- *)

Init ==
    /\ pc = "start"
    /\ cli \in CliInputs
    /\ config = NoConfig
    /\ depth_registered_mode = << >>
    /\ publish_point_clouds = FALSE
    /\ ld = << >>

\* declare the arguments, then register launch_setup
generate_launch_description ==
    /\ pc = "start"
    /\ ld' = Append(launch_args, [action |-> "OpaqueFunction", function |-> "launch_setup"])
    /\ config' = [n \in ArgNames |-> LaunchConfiguration(cli, n)]
    /\ pc' = "declared"
    /\ UNCHANGED <<cli, depth_registered_mode, publish_point_clouds>>

\* the OpaqueFunction: resolve the configuration and add the four actions
launch_setup ==
    /\ pc = "declared"
    /\ LET has_arm == config.has_arm
           spot_name == config.spot_name
           mode == ResolveMode(config.depth_registered_mode)
           point_clouds == ResolvePointClouds(config.publish_point_clouds, mode)
           spot_driver_node ==
               [ action     |-> "Node",
                 package    |-> "spot_driver",
                 executable |-> "spot_ros2",
                 name       |-> "spot_ros2",
                 parameters |-> SpotDriverParams(config.config_file, spot_name, mode),
                 namespace  |-> spot_name ]
           robot_state_publisher ==
               [ action     |-> "Node",
                 package    |-> "robot_state_publisher",
                 executable |-> "robot_state_publisher",
                 parameters |-> << [ robot_description |->
                     RobotDescription(has_arm, ResolveTfPrefix(config.tf_prefix, spot_name)) ] >>,
                 namespace  |-> spot_name ]
           rviz ==
               [ action           |-> "IncludeLaunchDescription",
                 source           |-> THIS_PACKAGE \o "/launch" \o "/rviz.launch.py",
                 launch_arguments |-> [ spot_name |-> spot_name,
                                        rviz_config_file |-> config.rviz_config_file ],
                 condition        |-> config.launch_rviz ]
           container ==
               [ action     |-> "ComposableNodeContainer",
                 name       |-> "container",
                 namespace  |-> spot_name,
                 package    |-> "rclcpp_components",
                 executable |-> "component_container_mt",
                 composable_node_descriptions |->
                     ComposableNodeDescriptions(spot_name, has_arm, mode, point_clouds) ]
       IN  /\ depth_registered_mode' = mode
           /\ publish_point_clouds' = point_clouds
           /\ ld' = ld \o <<spot_driver_node, robot_state_publisher, rviz, container>>
    /\ pc' = "done"
    /\ UNCHANGED <<cli, config>>

Next == generate_launch_description \/ launch_setup

Spec == Init /\ [][Next]_vars

(* ------------------------ the emitted topology ------------------------- *)

Done == pc = "done"

SpotDriverNode == ld[Len(launch_args) + 2]
StatePublisherNode == ld[Len(launch_args) + 3]
Container == ld[Len(launch_args) + 5]

DriverParams == SpotDriverNode.parameters
Components == Container.composable_node_descriptions

\* the tf_prefix substitution of the xacro command
TfPrefixPassed == StatePublisherNode.parameters[1].robot_description[9]

RegisterPlugin == "depth_image_proc::RegisterNode"
PointCloudPlugin == "depth_image_proc::PointCloudXyzrgbNode"

IsRegister(d) == d.plugin = RegisterPlugin
IsPointCloud(d) == d.plugin = PointCloudPlugin

ComponentSet == {Components[i] : i \in 1..Len(Components)}

\* the camera a descriptor is named after
CameraOf(d) ==
    IF IsRegister(d) THEN SubSeq(d.name, Len("register_node_") + 1, Len(d.name))
    ELSE SubSeq(d.name, Len("point_cloud_xyzrgb_node_") + 1, Len(d.name))

InternalNames(d) == {d.remappings[i][1] : i \in 1..Len(d.remappings)}
ExternalTopics(d) == {d.remappings[i][2] : i \in 1..Len(d.remappings)}
TopicOf(d, internal) ==
    d.remappings[CHOOSE i \in 1..Len(d.remappings) : d.remappings[i][1] = internal][2]

\* the parameter dictionaries that set key
ParamsSetting(key) == {i \in 1..Len(DriverParams) : key \in DOMAIN DriverParams[i]}

ExpectedCameras(has_arm) ==
    IF has_arm \in {"true", "True"}
    THEN <<"frontleft", "frontright", "left", "right", "back", "hand">>
    ELSE <<"frontleft", "frontright", "left", "right", "back">>

ExpectedRegisterRemappings(c) ==
    << <<"depth/image_rect", "depth/" \o c \o "/image">>,
       <<"depth/camera_info", "depth/" \o c \o "/camera_info">>,
       <<"rgb/camera_info", "camera/" \o c \o "/camera_info">>,
       <<"depth_registered/image_rect", "depth_registered/" \o c \o "/image">>,
       <<"depth_registered/camera_info", "depth_registered/" \o c \o "/camera_info">> >>

ExpectedPointCloudRemappings(c) ==
    << <<"rgb/camera_info", "camera/" \o c \o "/camera_info">>,
       <<"rgb/image_rect_color", "camera/" \o c \o "/image">>,
       <<"depth_registered/image_rect", "depth_registered/" \o c \o "/image">>,
       <<"points", "depth_registered/" \o c \o "/points">> >>

AllCameras == {"frontleft", "frontright", "left", "right", "back", "hand"}

(* ------------------------------ claims --------------------------------- *)

\* C1 as stated: the driver parameters always contain a publish_depth_registered
\* entry, and its value is (mode is FROM_SPOT), so it is true for from_spot.
C1_EntryEqualsFromDriver ==
    Done => \E i \in ParamsSetting("publish_depth_registered") :
                DriverParams[i].publish_depth_registered = (depth_registered_mode = FROM_SPOT)

\* C1 amended: the driver parameters contain a publish_depth_registered entry
\* exactly when the mode is not FROM_SPOT, and then exactly one, set to false;
\* for from_spot the key is absent and never set to true.
C1_EntryFalseUnlessFromDriver ==
    Done =>
        /\ depth_registered_mode = FROM_SPOT => ParamsSetting("publish_depth_registered") = {}
        /\ depth_registered_mode # FROM_SPOT =>
               Cardinality(ParamsSetting("publish_depth_registered")) = 1
        /\ \A i \in ParamsSetting("publish_depth_registered") :
               DriverParams[i].publish_depth_registered = FALSE

C1_Witness ==
    /\ Done
    /\ depth_registered_mode = FROM_SPOT
    /\ config.depth_registered_mode = "From_spot"
    /\ Len(DriverParams) = 2

\* C2: the resolved point-cloud policy is (requested and mode is not DISABLE),
\* and no PointCloudXyzrgbNode descriptor is emitted when the mode is DISABLE,
\* whatever the raw publish_point_clouds value.
C2_PointCloudPolicy ==
    Done =>
        /\ publish_point_clouds =
               (lower(config.publish_point_clouds) = "true" /\ depth_registered_mode # DISABLE)
        /\ depth_registered_mode = DISABLE => \A d \in ComponentSet : ~IsPointCloud(d)
        /\ (\E d \in ComponentSet : IsPointCloud(d)) => publish_point_clouds

C2_Witness ==
    /\ Done
    /\ config.publish_point_clouds = "true"
    /\ config.depth_registered_mode = "unexpected"
    /\ depth_registered_mode = DISABLE
    /\ Components = << >>

\* C3: mode resolution is total and case-insensitive: from_spot gives FROM_SPOT,
\* from_nodelets gives FROM_NODELETS, disable and every other string give DISABLE.
C3_ModeResolution ==
    /\ ResolveMode(config.depth_registered_mode) \in {DISABLE, FROM_SPOT, FROM_NODELETS}
    /\ Done =>
        LET raw == config.depth_registered_mode
        IN  /\ depth_registered_mode \in {DISABLE, FROM_SPOT, FROM_NODELETS}
            /\ (depth_registered_mode = FROM_SPOT) = (lower(raw) = "from_spot")
            /\ (depth_registered_mode = FROM_NODELETS) = (lower(raw) = "from_nodelets")
            /\ raw \in {"from_spot", "FROM_SPOT", "From_spot", "fRom_spot"}
                   => depth_registered_mode = FROM_SPOT
            /\ raw \in {"from_nodelets", "From_Nodelets", "FRom_nodelets"}
                   => depth_registered_mode = FROM_NODELETS
            /\ raw \in {"disable", "DISABLE", "Disable", "", "unexpected", "disabled",
                        "from_spot "}
                   => depth_registered_mode = DISABLE

C3_Witness ==
    /\ Done
    /\ config.depth_registered_mode = "From_Nodelets"
    /\ depth_registered_mode = FROM_NODELETS

\* C4: the camera sequence is frontleft, frontright, left, right, back, with
\* hand appended as sixth element exactly when has_arm is "true" or "True";
\* every other string gives the five base cameras; the emitted descriptors
\* follow that sequence.
C4_CameraSources ==
    /\ get_camera_sources(config.has_arm) = ExpectedCameras(config.has_arm)
    /\ Done /\ depth_registered_mode = FROM_NODELETS =>
           LET cams == ExpectedCameras(config.has_arm)
           IN  /\ Len(Components) >= Len(cams)
               /\ \A i \in 1..Len(cams) : Components[i].name = "register_node_" \o cams[i]
               /\ config.has_arm \in {"false", "False", "TRUE", "tRue"}
                      => Cardinality({d \in ComponentSet : IsRegister(d)}) = 5

C4_Witness ==
    /\ Done
    /\ config.has_arm = "True"
    /\ depth_registered_mode = FROM_NODELETS
    /\ Components[6].name = "register_node_hand"

\* C5: the component list is the registration descriptors (one per camera, in
\* camera order) iff the mode is FROM_NODELETS, followed by the point-cloud
\* descriptors (one per camera, in camera order) iff point clouds are published.
C5_ComponentList ==
    Done =>
        LET cams == ExpectedCameras(config.has_arm)
            n == Len(cams)
            r == IF depth_registered_mode = FROM_NODELETS THEN n ELSE 0
            p == IF publish_point_clouds THEN n ELSE 0
        IN  /\ Container.action = "ComposableNodeContainer"
            /\ Len(Components) = r + p
            /\ \A i \in 1..r : /\ IsRegister(Components[i])
                               /\ Components[i].name = "register_node_" \o cams[i]
            /\ \A i \in 1..p : /\ IsPointCloud(Components[r + i])
                               /\ Components[r + i].name = "point_cloud_xyzrgb_node_" \o cams[i]
            /\ depth_registered_mode = FROM_NODELETS /\ publish_point_clouds
                   /\ config.has_arm = "true" => Len(Components) = 12
            /\ depth_registered_mode = FROM_SPOT /\ publish_point_clouds
                   /\ config.has_arm = "false" => Len(Components) = 5
            /\ depth_registered_mode # FROM_NODELETS /\ ~publish_point_clouds
                   => Components = << >>

C5_Witness ==
    /\ Done
    /\ Len(Components) = 12
    /\ IsRegister(Components[6])
    /\ IsPointCloud(Components[7])

\* C6: every emitted descriptor carries exactly the remapping table of its
\* kind for its own camera, in order, is named after that camera, and has
\* spot_name as namespace.
C6_RemappingTables ==
    Done =>
        \A d \in ComponentSet :
            /\ d.namespace = config.spot_name
            /\ IsRegister(d) \/ IsPointCloud(d)
            /\ IsRegister(d) =>
                   \E c \in AllCameras : /\ d.name = "register_node_" \o c
                                         /\ d.remappings = ExpectedRegisterRemappings(c)
            /\ IsPointCloud(d) =>
                   \E c \in AllCameras : /\ d.name = "point_cloud_xyzrgb_node_" \o c
                                         /\ d.remappings = ExpectedPointCloudRemappings(c)

C6_Witness ==
    /\ Done
    /\ config.spot_name = "a"
    /\ \E d \in ComponentSet :
           /\ d.name = "register_node_frontleft"
           /\ d.namespace = "a"
           /\ TopicOf(d, "depth/image_rect") = "depth/frontleft/image"
           /\ TopicOf(d, "rgb/camera_info") = "camera/frontleft/camera_info"
           /\ TopicOf(d, "depth_registered/camera_info") = "depth_registered/frontleft/camera_info"
    /\ \E d \in ComponentSet : d.name = "point_cloud_xyzrgb_node_back"

\* C7: two descriptors of the same camera map every internal name they share
\* to the same external topic (in particular depth_registered/image_rect and
\* rgb/camera_info of a registration and a point-cloud descriptor), and
\* descriptors of different cameras share no external topic.
C7_Wiring ==
    Done =>
        \A d1, d2 \in ComponentSet :
            /\ CameraOf(d1) = CameraOf(d2) =>
                   \A n \in InternalNames(d1) \cap InternalNames(d2) :
                       TopicOf(d1, n) = TopicOf(d2, n)
            /\ CameraOf(d1) = CameraOf(d2) /\ IsRegister(d1) /\ IsPointCloud(d2) =>
                   /\ {"depth_registered/image_rect", "rgb/camera_info"}
                          \subseteq InternalNames(d1) \cap InternalNames(d2)
                   /\ TopicOf(d1, "depth_registered/image_rect")
                          = TopicOf(d2, "depth_registered/image_rect")
                   /\ TopicOf(d1, "rgb/camera_info") = TopicOf(d2, "rgb/camera_info")
            /\ CameraOf(d1) # CameraOf(d2) => ExternalTopics(d1) \cap ExternalTopics(d2) = {}

C7_Witness ==
    /\ Done
    /\ \E d1, d2 \in ComponentSet :
           /\ IsRegister(d1) /\ IsPointCloud(d2)
           /\ CameraOf(d1) = "left" /\ CameraOf(d2) = "left"
           /\ TopicOf(d1, "depth_registered/image_rect") = "depth_registered/left/image"
    /\ \E d \in ComponentSet : CameraOf(d) = "frontleft"

\* C8 as stated: with tf_prefix empty and spot_name non-empty the tf_prefix
\* passed to xacro is spot_name followed by "/"; otherwise the given tf_prefix.
C8_TfPrefixAppendsSlash ==
    Done =>
        TfPrefixPassed =
            IF config.tf_prefix = "" /\ config.spot_name # ""
            THEN config.spot_name \o "/"
            ELSE config.tf_prefix

\* C8 amended: with tf_prefix empty and spot_name non-empty the tf_prefix
\* passed to xacro is spot_name followed by "/", or spot_name itself when it
\* already ends in "/"; otherwise the given tf_prefix, unchanged.
C8_TfPrefixJoined ==
    Done =>
        LET name == config.spot_name
        IN  TfPrefixPassed =
                IF config.tf_prefix = "" /\ name # ""
                THEN (IF SubSeq(name, Len(name), Len(name)) = "/" THEN name ELSE name \o "/")
                ELSE config.tf_prefix

C8_Witness ==
    /\ Done
    /\ config.tf_prefix = ""
    /\ config.spot_name = "a"
    /\ TfPrefixPassed = "a/"

\* C9: every emitted point-cloud descriptor has a producer of its registered
\* depth input: a registration descriptor of the same camera publishing the
\* same topic (FROM_NODELETS), or the driver with publish_depth_registered not
\* set to false (FROM_SPOT).
C9_PointCloudHasProducer ==
    Done =>
        \A d \in ComponentSet :
            IsPointCloud(d) =>
                \/ /\ depth_registered_mode = FROM_NODELETS
                   /\ \E r \in ComponentSet :
                          /\ IsRegister(r)
                          /\ CameraOf(r) = CameraOf(d)
                          /\ TopicOf(r, "depth_registered/image_rect")
                                 = TopicOf(d, "depth_registered/image_rect")
                \/ /\ depth_registered_mode = FROM_SPOT
                   /\ \A i \in ParamsSetting("publish_depth_registered") :
                          DriverParams[i].publish_depth_registered # FALSE

C9_Witness ==
    /\ Done
    /\ depth_registered_mode = FROM_SPOT
    /\ \E d \in ComponentSet : IsPointCloud(d)
    /\ ParamsSetting("publish_depth_registered") = {}

\* C10: no two descriptors of the emitted component list have the same name.
C10_UniqueNames ==
    Done =>
        /\ \A i, j \in 1..Len(Components) :
               i # j => Components[i].name # Components[j].name
        /\ \A d \in ComponentSet : d.namespace = Container.namespace

C10_Witness ==
    /\ Done
    /\ Len(Components) = 10
    /\ depth_registered_mode = FROM_NODELETS
    /\ publish_point_clouds

====
